---- MODULE Spec2Model ----
(***************************************************************************)
(* Graph-coloring clustering protocol (GraphColoringClustering.cc).        *)
(* Every node keeps a color, a role, a cluster id, a neighbor table, a     *)
(* backbone routing table, a set of seen data packets and a sequence       *)
(* number.  Handlers are modelled as operators on one node's state; the    *)
(* actions apply a whole handler to one node and move its packets.         *)
(***************************************************************************)
EXTENDS Integers, Sequences, FiniteSets, Bags, TLC

\* ------------------------------------------------------------------ bounds
NumHosts == 3
MaxTime == 2
MaxHelloInFlight == 1
MaxSeq == 2
MaxColor == 2
\* units originated in a run of the whole network (NextNetwork)
MaxUnits == 2
\* units originated in a run that keeps the handler record (NextTimers,
\* NextDelivery, NextAging)
MaxUnitsTimers == 1
MaxRepeats == 1
\* HELLO multicasts in a run of the whole network with data traffic
MaxHellos == 3

\* --------------------------------------------------------- program constants
UNDECIDED == 0
CLUSTER_HEAD == 1
MEMBER == 2
GATEWAY == 3
NoColor == -1
NoCluster == -1
NoNextHop == -1
NoLastHop == -1
InitialTtl == 10
neighborTimeout == 1

Nodes == 0..(NumHosts - 1)
Roles == {UNDECIDED, CLUSTER_HEAD, MEMBER, GATEWAY}

\* the transport address of node j (L3Address); addresses are compared, never
\* used as ids
IpOf(j) == <<"ip", j>>

\* std::map with no entry
EmptyMap == [k \in {} |-> 0]

\* ---------------------------------------------------------------- variables
VARIABLES
    node,     \* node[i]: the fields of module instance i
    net,      \* packets handed to the socket and not yet arrived
    delayed,  \* delayed[i]: KIND_DELAYED_FORWARD self-messages scheduled at i
    now,      \* simTime()
    up,       \* nodes still running (not yet finish()ed / out of the network)
    links,    \* radio neighborhood, fixed during a run
    ev        \* the last handler that ran: its node, input and outputs

vars == <<node, net, delayed, now, up, links, ev>>

\* ------------------------------------------------------------ initialize()
\* the periodic self-messages of a module
TimerNames == {"helloTimer", "maintenanceTimer", "dataTimer"}

\* timers[k] counts the pending scheduleAt calls for self-message k
InitNode ==
    [ currentColor |-> NoColor,
      role |-> UNDECIDED,
      clusterId |-> NoCluster,
      neighborTable |-> EmptyMap,
      backboneRoutingTable |-> EmptyMap,
      seenDataPackets |-> {},
      mySeqNum |-> 0,
      numHosts |-> NumHosts,
      timers |-> [k \in TimerNames |-> 1] ]

\* scheduleAt(..., k)
ScheduleAt(s, k) == [s EXCEPT !.timers[k] = @ + 1]

\* self-message k is taken off the schedule and handed to handleMessage
Fired(s, k) == [s EXCEPT !.timers[k] = @ - 1]

\* finish(): cancelAndDelete of the three timers
Finished(s) == [s EXCEPT !.timers = [k \in TimerNames |-> 0]]

NoPkt == [ kind |-> "NONE" ]

NoEv ==
    [ op |-> "init", node |-> -1, pre |-> InitNode, pkt |-> NoPkt,
      lastHop |-> NoLastHop, delivered |-> FALSE, sent |-> {}, sched |-> {},
      pruned |-> {}, stepColor |-> NoColor, deliveries |-> EmptyBag,
      hellos |-> 0 ]

\* ------------------------------------------------------ handleColorTimer()
\* usedColors: the non-negative colors recorded in the neighbor table
\* variant: color 0 is not collected
UsedColors_SkipZero(nt) == { c \in { nt[k].color : k \in DOMAIN nt } : c > 0 }

UsedColors(nt) == { c \in { nt[k].color : k \in DOMAIN nt } : c >= 0 }

\* the while loops "++c until c is not in usedColors", started at c
RECURSIVE SmallestUnused(_, _)
SmallestUnused(used, c) ==
    IF c \in used THEN SmallestUnused(used, c + 1) ELSE c

\* variant: a conflict is never detected
ConflictWithHigherPrio_Never(id, s) == FALSE

\* variant: the larger id wins the tie-break
ConflictWithHigherPrio_LargerId(id, s) ==
    /\ s.currentColor >= 0
    /\ \E k \in DOMAIN s.neighborTable :
          /\ s.neighborTable[k].color = s.currentColor
          /\ s.neighborTable[k].neighborId > id

ConflictWithHigherPrio(id, s) ==
    /\ s.currentColor >= 0
    /\ \E k \in DOMAIN s.neighborTable :
          /\ s.neighborTable[k].color = s.currentColor
          /\ s.neighborTable[k].neighborId < id

\* variant: no compaction branch
NewColor_NoCompaction(id, s) ==
    LET used == UsedColors(s.neighborTable)
        cur == s.currentColor
    IN  IF cur < 0 \/ ConflictWithHigherPrio(id, s)
        THEN SmallestUnused(used, 0)
        ELSE IF DOMAIN s.neighborTable # {} /\ 0 \notin used /\ cur # 0
        THEN 0
        ELSE cur

\* variant: no CH-recovery branch
NewColor_NoRecovery(id, s) ==
    LET used == UsedColors(s.neighborTable)
        cur == s.currentColor
    IN  IF cur < 0 \/ ConflictWithHigherPrio(id, s)
        THEN SmallestUnused(used, 0)
        ELSE IF cur > 0
        THEN LET candidate == SmallestUnused(used, 1)
             IN  IF candidate < cur THEN candidate ELSE cur
        ELSE cur

\* variant: CH recovery also with an empty neighbor table
NewColor_RecoverWhenAlone(id, s) ==
    LET used == UsedColors(s.neighborTable)
        cur == s.currentColor
    IN  IF cur < 0 \/ ConflictWithHigherPrio(id, s)
        THEN SmallestUnused(used, 0)
        ELSE IF 0 \notin used /\ cur # 0
        THEN 0
        ELSE IF cur > 0
        THEN LET candidate == SmallestUnused(used, 1)
             IN  IF candidate < cur THEN candidate ELSE cur
        ELSE cur

\* variant: compaction moves to the candidate even when it is higher
NewColor_CompactUp(id, s) ==
    LET used == UsedColors(s.neighborTable)
        cur == s.currentColor
    IN  IF cur < 0 \/ ConflictWithHigherPrio(id, s)
        THEN SmallestUnused(used, 0)
        ELSE IF DOMAIN s.neighborTable # {} /\ 0 \notin used /\ cur # 0
        THEN 0
        ELSE IF cur > 0
        THEN SmallestUnused(used, 1)
        ELSE cur

\* variant: an uncolored or conflicting node takes color 0 whatever is in use
NewColor_RecolorToZero(id, s) ==
    LET used == UsedColors(s.neighborTable)
        cur == s.currentColor
    IN  IF cur < 0 \/ ConflictWithHigherPrio(id, s)
        THEN 0
        ELSE IF DOMAIN s.neighborTable # {} /\ 0 \notin used /\ cur # 0
        THEN 0
        ELSE IF cur > 0
        THEN LET candidate == SmallestUnused(used, 1)
             IN  IF candidate < cur THEN candidate ELSE cur
        ELSE cur

NewColor(id, s) ==
    LET used == UsedColors(s.neighborTable)
        cur == s.currentColor
    IN  IF cur < 0 \/ ConflictWithHigherPrio(id, s)
        THEN SmallestUnused(used, 0)
        ELSE IF DOMAIN s.neighborTable # {} /\ 0 \notin used /\ cur # 0
        THEN 0
        ELSE IF cur > 0
        THEN LET candidate == SmallestUnused(used, 1)
             IN  IF candidate < cur THEN candidate ELSE cur
        ELSE cur

HandleColorTimer(id, s) == [s EXCEPT !.currentColor = NewColor(id, s)]

\* --------------------------------------------------------- recomputeRole()
ChCandidates(nt) ==
    { nt[k].neighborId : k \in { j \in DOMAIN nt : nt[j].color = 0 } }

MinOf(S) == CHOOSE x \in S : \A y \in S : x <= y

\* variant: the largest candidate id is chosen
ChosenChId_Largest(nt) ==
    IF ChCandidates(nt) = {} THEN -1
    ELSE CHOOSE x \in ChCandidates(nt) : \A y \in ChCandidates(nt) : x >= y

ChosenChId(nt) ==
    IF ChCandidates(nt) = {} THEN -1 ELSE MinOf(ChCandidates(nt))

\* variant: a record reporting no cluster counts as another cluster
HearsOtherCluster_AnyCluster(nt, cid) ==
    \E k \in DOMAIN nt : nt[k].clusterId # cid

HearsOtherCluster(nt, cid) ==
    \E k \in DOMAIN nt : nt[k].clusterId >= 0 /\ nt[k].clusterId # cid

\* variant: the gateway test compares with the clusterId held before the call
RecomputeRole_StaleCluster(id, s) ==
    IF s.currentColor < 0
    THEN [s EXCEPT !.role = UNDECIDED, !.clusterId = NoCluster]
    ELSE IF s.currentColor = 0
    THEN [s EXCEPT !.role = CLUSTER_HEAD, !.clusterId = id]
    ELSE LET chosen == ChosenChId(s.neighborTable)
         IN  IF chosen < 0
             THEN [s EXCEPT !.clusterId = chosen, !.role = UNDECIDED,
                            !.currentColor = NoColor]
             ELSE [s EXCEPT !.clusterId = chosen,
                            !.role = IF HearsOtherCluster(s.neighborTable, s.clusterId)
                                     THEN GATEWAY ELSE MEMBER]

\* variant: the color is kept when no Cluster Head is heard
RecomputeRole_KeepColor(id, s) ==
    IF s.currentColor < 0
    THEN [s EXCEPT !.role = UNDECIDED, !.clusterId = NoCluster]
    ELSE IF s.currentColor = 0
    THEN [s EXCEPT !.role = CLUSTER_HEAD, !.clusterId = id]
    ELSE LET chosen == ChosenChId(s.neighborTable)
         IN  IF chosen < 0
             THEN [s EXCEPT !.clusterId = chosen, !.role = UNDECIDED]
             ELSE [s EXCEPT !.clusterId = chosen,
                            !.role = IF HearsOtherCluster(s.neighborTable, chosen)
                                     THEN GATEWAY ELSE MEMBER]

RecomputeRole(id, s) ==
    IF s.currentColor < 0
    THEN [s EXCEPT !.role = UNDECIDED, !.clusterId = NoCluster]
    ELSE IF s.currentColor = 0
    THEN [s EXCEPT !.role = CLUSTER_HEAD, !.clusterId = id]
    ELSE LET chosen == ChosenChId(s.neighborTable)
         IN  IF chosen < 0
             THEN [s EXCEPT !.clusterId = chosen, !.role = UNDECIDED,
                            !.currentColor = NoColor]
             ELSE [s EXCEPT !.clusterId = chosen,
                            !.role = IF HearsOtherCluster(s.neighborTable, chosen)
                                     THEN GATEWAY ELSE MEMBER]

\* --------------------------------------------------------- pruneNeighbors()
\* variant: a record exactly at the threshold is removed too
ToRemove_AtThreshold(nt, t) ==
    { k \in DOMAIN nt : t - nt[k].lastHeard >= neighborTimeout }

ToRemove(nt, t) == { k \in DOMAIN nt : t - nt[k].lastHeard > neighborTimeout }

PruneNeighbors(s, t) ==
    [s EXCEPT !.neighborTable =
        [k \in DOMAIN s.neighborTable \ ToRemove(s.neighborTable, t)
            |-> s.neighborTable[k]]]

\* ------------------------------------------------- handleMaintenanceTimer()
\* variant: the maintenance cycle does not recompute the role
HandleMaintenanceTimer_NoRecompute(id, s, t) ==
    ScheduleAt(HandleColorTimer(id, PruneNeighbors(s, t)), "maintenanceTimer")

HandleMaintenanceTimer(id, s, t) ==
    ScheduleAt(RecomputeRole(id, HandleColorTimer(id, PruneNeighbors(s, t))),
               "maintenanceTimer")

\* ------------------------------------------------------- handleHelloTimer()
HelloOf(id, s) ==
    [ kind |-> "HELLO", senderId |-> id, color |-> s.currentColor,
      role |-> s.role, clusterId |-> s.clusterId ]

\* the HELLO is handed to the socket and the timer is scheduled again
HandleHelloTimer(id, s) == ScheduleAt(s, "helloTimer")

\* ------------------------------------------- handleUdpPacket(), HELLO branch
NeighborInfoOf(m, senderIp, t) ==
    [ neighborId |-> m.senderId, ipAddress |-> senderIp, color |-> m.color,
      role |-> m.role, clusterId |-> m.clusterId, lastHeard |-> t ]

Upsert(nt, key, info) ==
    [k \in DOMAIN nt \cup {key} |-> IF k = key THEN info ELSE nt[k]]

\* variant: the node's own advertisement is taken in like any other
HandleHello_NoSelfCheck(id, s, m, senderIp, t) ==
    RecomputeRole(id,
        [s EXCEPT !.neighborTable =
            Upsert(s.neighborTable, m.senderId, NeighborInfoOf(m, senderIp, t))])

\* variant: a received advertisement triggers the coloring step as well
HandleHello_Recolors(id, s, m, senderIp, t) ==
    IF m.senderId = id
    THEN s
    ELSE RecomputeRole(id, HandleColorTimer(id,
            [s EXCEPT !.neighborTable =
                Upsert(s.neighborTable, m.senderId, NeighborInfoOf(m, senderIp, t))]))

HandleHello(id, s, m, senderIp, t) ==
    IF m.senderId = id
    THEN s
    ELSE RecomputeRole(id,
            [s EXCEPT !.neighborTable =
                Upsert(s.neighborTable, m.senderId, NeighborInfoOf(m, senderIp, t))])

\* --------------------------------------------------------- handleDataTimer()
\* what a handler hands to the socket (sent), schedules as a delayed forward
\* (sched) and delivers to the application (delivered), with the node's new state
Outcome(s, sent, sched, delivered) ==
    [ st |-> s, sent |-> sent, sched |-> sched, delivered |-> delivered ]

DataPk(src, seq, ttl, dest, nextHop) ==
    [ kind |-> "DATA", srcId |-> src, seqNum |-> seq, ttl |-> ttl,
      destNodeId |-> dest, nextHopId |-> nextHop ]

WithNextHop(pk, nextHop) == [pk EXCEPT !.nextHopId = nextHop]

\* socket.sendTo(pk, ip, destPort)
SendTo(pk, ip) == [ dstIp |-> ip, msg |-> pk ]

\* variant: Cluster Head neighbors count as flood targets too
GatewayNeighbors_WithHeads(nt) ==
    { k \in DOMAIN nt : nt[k].role \in {GATEWAY, CLUSTER_HEAD} }

GatewayNeighbors(nt) == { k \in DOMAIN nt : nt[k].role = GATEWAY }

\* one jittered copy per neighbor recorded as GATEWAY (FALLBACK_FLOOD, CH_FORWARD_FLOOD)
FloodCopies(pk, nt) == { WithNextHop(pk, k) : k \in GatewayNeighbors(nt) }

\* variant: the cached gateway's recorded role is not looked at
RouteIsValid_AnyRole(nt, gwId) == gwId \in DOMAIN nt

RouteIsValid(nt, gwId) == gwId \in DOMAIN nt /\ nt[gwId].role = GATEWAY

EraseKey(m, key) == [k \in DOMAIN m \ {key} |-> m[k]]

\* variant: the unit is recorded and counted whether or not it was handed on
Bookkeeping_Always(id, s, sent) ==
    [s EXCEPT !.seenDataPackets = @ \cup {<<id, s.mySeqNum>>},
              !.mySeqNum = @ + 1]

\* bookkeeping of handleDataTimer: if (sent) { seen.insert; mySeqNum++ }
Bookkeeping(id, s, sent) ==
    IF sent
    THEN [s EXCEPT !.seenDataPackets = @ \cup {<<id, s.mySeqNum>>},
                   !.mySeqNum = @ + 1]
    ELSE s

\* variant: the early return leaves the data timer unscheduled
TooFewHosts_NoReschedule(s) == Outcome(s, {}, {}, FALSE)

\* the early return for numHosts <= 1: nothing but the reschedule
TooFewHosts(s) == Outcome(ScheduleAt(s, "dataTimer"), {}, {}, FALSE)

\* the common tail of handleDataTimer: schedule the next data packet
Rescheduled(out) == [out EXCEPT !.st = ScheduleAt(@, "dataTimer")]

HandleDataTimer(id, s, targetNode) ==
    LET nt == s.neighborTable
        brt == s.backboneRoutingTable
        pk == DataPk(id, s.mySeqNum, InitialTtl, targetNode, NoNextHop)
    IN  IF s.numHosts <= 1 THEN TooFewHosts(s)
        ELSE Rescheduled(
        IF s.role = MEMBER \/ s.role = GATEWAY
        THEN IF s.clusterId # NoCluster /\ s.clusterId \in DOMAIN nt
             THEN Outcome(Bookkeeping(id, s, TRUE),
                          {SendTo(WithNextHop(pk, s.clusterId), nt[s.clusterId].ipAddress)},
                          {}, FALSE)
             ELSE Outcome(s, {}, {}, FALSE)
        ELSE IF s.role = CLUSTER_HEAD
        THEN IF targetNode \in DOMAIN nt
             THEN Outcome(Bookkeeping(id, s, TRUE),
                          {SendTo(WithNextHop(pk, targetNode), nt[targetNode].ipAddress)},
                          {}, FALSE)
             ELSE IF targetNode \in DOMAIN brt /\ RouteIsValid(nt, brt[targetNode])
             THEN Outcome(Bookkeeping(id, s, TRUE),
                          {SendTo(WithNextHop(pk, brt[targetNode]),
                                  nt[brt[targetNode]].ipAddress)},
                          {}, FALSE)
             ELSE LET s1 == [s EXCEPT !.backboneRoutingTable = EraseKey(brt, targetNode)]
                      copies == FloodCopies(pk, nt)
                  IN  Outcome(Bookkeeping(id, s1, copies # {}), {}, copies, FALSE)
        ELSE Outcome(s, {}, {}, FALSE))

\* -------------------------------------------- handleUdpPacket(), DATA branch
\* STEP A: the neighbor whose recorded address is the last hop's, else -1
LastHopId(nt, lastHopIp) ==
    IF \E k \in DOMAIN nt : nt[k].ipAddress = lastHopIp
    THEN MinOf({ k \in DOMAIN nt : nt[k].ipAddress = lastHopIp })
    ELSE NoLastHop

\* variant: the sender's recorded role is not looked at
LearnRoute_AnySender(s, pk, lastHopIp) ==
    LET lastHopId == LastHopId(s.neighborTable, lastHopIp)
    IN  IF s.role = CLUSTER_HEAD /\ lastHopId # NoLastHop
        THEN [s EXCEPT !.backboneRoutingTable = Upsert(@, pk.srcId, lastHopId)]
        ELSE s

LearnRoute(s, pk, lastHopIp) ==
    LET lastHopId == LastHopId(s.neighborTable, lastHopIp)
    IN  IF /\ s.role = CLUSTER_HEAD
           /\ lastHopId # NoLastHop
           /\ s.neighborTable[lastHopId].role = GATEWAY
        THEN [s EXCEPT !.backboneRoutingTable = Upsert(@, pk.srcId, lastHopId)]
        ELSE s

NotForMe(id, pk) == pk.nextHopId # NoNextHop /\ pk.nextHopId # id

FromMyCH(s, lastHopIp) ==
    /\ s.role # UNDECIDED
    /\ s.clusterId # NoCluster
    /\ s.clusterId \in DOMAIN s.neighborTable
    /\ s.neighborTable[s.clusterId].ipAddress = lastHopIp

\* variant: the key is looked up with its two parts swapped
IsSeen_SwappedKey(s, pk) == <<pk.seqNum, pk.srcId>> \in s.seenDataPackets

IsSeen(s, pk) == <<pk.srcId, pk.seqNum>> \in s.seenDataPackets

\* variant: the unit need not be this node's own
IsMyPacketReturning_AnySource(id, s, pk, lastHopIp) ==
    s.role = GATEWAY /\ FromMyCH(s, lastHopIp)

IsMyPacketReturning(id, s, pk, lastHopIp) ==
    pk.srcId = id /\ s.role = GATEWAY /\ FromMyCH(s, lastHopIp)

\* variant: a Gateway re-admits any unit coming back from its Cluster Head
\* that it has already taken in
IsDuplicate_GatewayReadmitsAll(id, s, pk, lastHopIp) ==
    IsSeen(s, pk) /\ ~(s.role = GATEWAY /\ FromMyCH(s, lastHopIp))

IsDuplicate(id, s, pk, lastHopIp) ==
    IsSeen(s, pk) /\ ~IsMyPacketReturning(id, s, pk, lastHopIp)

\* variant: the copy gains a hop
ForwardPk_GainTtl(pk) ==
    DataPk(pk.srcId, pk.seqNum, pk.ttl + 1, pk.destNodeId, NoNextHop)

\* variant: the copy keeps the received TTL
ForwardPk_KeepTtl(pk) ==
    DataPk(pk.srcId, pk.seqNum, pk.ttl, pk.destNodeId, NoNextHop)

ForwardPk(pk) == DataPk(pk.srcId, pk.seqNum, pk.ttl - 1, pk.destNodeId, NoNextHop)

\* variant: the cached-gateway copy is handed to the socket at once
ForwardAsClusterHead_CachedAtOnce(s, fwd) ==
    LET nt == s.neighborTable
        brt == s.backboneRoutingTable
        target == fwd.destNodeId
    IN  IF target \in DOMAIN nt
        THEN Outcome(s, {SendTo(WithNextHop(fwd, target), nt[target].ipAddress)},
                     {}, FALSE)
        ELSE IF target \in DOMAIN brt /\ RouteIsValid(nt, brt[target])
        THEN Outcome(s, {SendTo(WithNextHop(fwd, brt[target]), nt[brt[target]].ipAddress)},
                     {}, FALSE)
        ELSE Outcome([s EXCEPT !.backboneRoutingTable = EraseKey(brt, target)],
                     {}, FloodCopies(fwd, nt), FALSE)

\* variant: the route cache is consulted before the neighbor table
ForwardAsClusterHead_CacheFirst(s, fwd) ==
    LET nt == s.neighborTable
        brt == s.backboneRoutingTable
        target == fwd.destNodeId
    IN  IF target \in DOMAIN brt /\ RouteIsValid(nt, brt[target])
        THEN Outcome(s, {}, {WithNextHop(fwd, brt[target])}, FALSE)
        ELSE IF target \in DOMAIN nt
        THEN Outcome(s, {SendTo(WithNextHop(fwd, target), nt[target].ipAddress)},
                     {}, FALSE)
        ELSE Outcome([s EXCEPT !.backboneRoutingTable = EraseKey(brt, target)],
                     {}, FloodCopies(fwd, nt), FALSE)

\* A. CLUSTER HEAD LOGIC
ForwardAsClusterHead(s, fwd) ==
    LET nt == s.neighborTable
        brt == s.backboneRoutingTable
        target == fwd.destNodeId
    IN  IF target \in DOMAIN nt
        THEN Outcome(s, {SendTo(WithNextHop(fwd, target), nt[target].ipAddress)},
                     {}, FALSE)
        ELSE IF target \in DOMAIN brt /\ RouteIsValid(nt, brt[target])
        THEN Outcome(s, {}, {WithNextHop(fwd, brt[target])}, FALSE)
        ELSE Outcome([s EXCEPT !.backboneRoutingTable = EraseKey(brt, target)],
                     {}, FloodCopies(fwd, nt), FALSE)

\* variant: every backbone neighbor is bridged to, the own cluster included
ForeignBackbone_AllBackbone(s) ==
    { k \in DOMAIN s.neighborTable :
        s.neighborTable[k].role \in {GATEWAY, CLUSTER_HEAD} }

\* B. GATEWAY LOGIC: the foreign backbone neighbors a unit is bridged out to
ForeignBackbone(s) ==
    { k \in DOMAIN s.neighborTable :
        /\ s.neighborTable[k].clusterId # s.clusterId
        /\ s.neighborTable[k].role \in {GATEWAY, CLUSTER_HEAD} }

ForwardAsGateway(s, fwd, lastHopIp) ==
    LET nt == s.neighborTable
        fromMyCH == /\ s.clusterId # NoCluster
                    /\ s.clusterId \in DOMAIN nt
                    /\ nt[s.clusterId].ipAddress = lastHopIp
    IN  IF fromMyCH
        THEN Outcome(s, {},
                     { WithNextHop(fwd, nt[k].neighborId) : k \in ForeignBackbone(s) },
                     FALSE)
        ELSE IF s.clusterId # NoCluster /\ s.clusterId \in DOMAIN nt
        THEN Outcome(s, {SendTo(WithNextHop(fwd, s.clusterId), nt[s.clusterId].ipAddress)},
                     {}, FALSE)
        ELSE Outcome(s, {}, {}, FALSE)

\* variant: the hop budget is checked before the delivery check
HandleData_TtlBeforeDelivery(id, s, pk, lastHopIp) ==
    LET s1 == LearnRoute(s, pk, lastHopIp)
        s2 == [s1 EXCEPT !.seenDataPackets = @ \cup {<<pk.srcId, pk.seqNum>>}]
    IN  IF NotForMe(id, pk) THEN Outcome(s1, {}, {}, FALSE)
        ELSE IF IsDuplicate(id, s1, pk, lastHopIp) THEN Outcome(s1, {}, {}, FALSE)
        ELSE IF pk.ttl <= 0 THEN Outcome(s2, {}, {}, FALSE)
        ELSE IF id = pk.destNodeId THEN Outcome(s2, {}, {}, TRUE)
        ELSE IF s2.role = MEMBER THEN Outcome(s2, {}, {}, FALSE)
        ELSE IF s2.role = CLUSTER_HEAD THEN ForwardAsClusterHead(s2, ForwardPk(pk))
        ELSE IF s2.role = GATEWAY THEN ForwardAsGateway(s2, ForwardPk(pk), lastHopIp)
        ELSE Outcome(s2, {}, {}, FALSE)

\* variant: the unit is recorded before the addressing filter
HandleData_RecordBeforeFilter(id, s, pk, lastHopIp) ==
    LET s1 == LearnRoute(s, pk, lastHopIp)
        s2 == [s1 EXCEPT !.seenDataPackets = @ \cup {<<pk.srcId, pk.seqNum>>}]
    IN  IF NotForMe(id, pk) THEN Outcome(s2, {}, {}, FALSE)
        ELSE IF IsDuplicate(id, s1, pk, lastHopIp) THEN Outcome(s1, {}, {}, FALSE)
        ELSE IF id = pk.destNodeId THEN Outcome(s2, {}, {}, TRUE)
        ELSE IF s2.role = MEMBER THEN Outcome(s2, {}, {}, FALSE)
        ELSE IF pk.ttl <= 0 THEN Outcome(s2, {}, {}, FALSE)
        ELSE IF s2.role = CLUSTER_HEAD THEN ForwardAsClusterHead(s2, ForwardPk(pk))
        ELSE IF s2.role = GATEWAY THEN ForwardAsGateway(s2, ForwardPk(pk), lastHopIp)
        ELSE Outcome(s2, {}, {}, FALSE)

\* variant: a node that is neither Member nor Gateway forwards like a Cluster Head
HandleData_UndecidedForwards(id, s, pk, lastHopIp) ==
    LET s1 == LearnRoute(s, pk, lastHopIp)
        s2 == [s1 EXCEPT !.seenDataPackets = @ \cup {<<pk.srcId, pk.seqNum>>}]
    IN  IF NotForMe(id, pk) THEN Outcome(s1, {}, {}, FALSE)
        ELSE IF IsDuplicate(id, s1, pk, lastHopIp) THEN Outcome(s1, {}, {}, FALSE)
        ELSE IF id = pk.destNodeId THEN Outcome(s2, {}, {}, TRUE)
        ELSE IF s2.role = MEMBER THEN Outcome(s2, {}, {}, FALSE)
        ELSE IF pk.ttl <= 0 THEN Outcome(s2, {}, {}, FALSE)
        ELSE IF s2.role = GATEWAY THEN ForwardAsGateway(s2, ForwardPk(pk), lastHopIp)
        ELSE ForwardAsClusterHead(s2, ForwardPk(pk))

HandleData(id, s, pk, lastHopIp) ==
    LET s1 == LearnRoute(s, pk, lastHopIp)
        s2 == [s1 EXCEPT !.seenDataPackets = @ \cup {<<pk.srcId, pk.seqNum>>}]
    IN  IF NotForMe(id, pk) THEN Outcome(s1, {}, {}, FALSE)
        ELSE IF IsDuplicate(id, s1, pk, lastHopIp) THEN Outcome(s1, {}, {}, FALSE)
        ELSE IF id = pk.destNodeId THEN Outcome(s2, {}, {}, TRUE)
        ELSE IF s2.role = MEMBER THEN Outcome(s2, {}, {}, FALSE)
        ELSE IF pk.ttl <= 0 THEN Outcome(s2, {}, {}, FALSE)
        ELSE IF s2.role = CLUSTER_HEAD THEN ForwardAsClusterHead(s2, ForwardPk(pk))
        ELSE IF s2.role = GATEWAY THEN ForwardAsGateway(s2, ForwardPk(pk), lastHopIp)
        ELSE Outcome(s2, {}, {}, FALSE)

\* ------------------------------- handleMessage(), KIND_DELAYED_FORWARD branch
\* variant: the next hop must still be recorded as Gateway
HandleDelayedForward_GatewayOnly(s, pk) ==
    IF /\ pk.nextHopId \in DOMAIN s.neighborTable
       /\ s.neighborTable[pk.nextHopId].role = GATEWAY
    THEN Outcome(s, {SendTo(pk, s.neighborTable[pk.nextHopId].ipAddress)}, {}, FALSE)
    ELSE Outcome(s, {}, {}, FALSE)

HandleDelayedForward(s, pk) ==
    IF pk.nextHopId \in DOMAIN s.neighborTable
    THEN Outcome(s, {SendTo(pk, s.neighborTable[pk.nextHopId].ipAddress)}, {}, FALSE)
    ELSE Outcome(s, {}, {}, FALSE)

\* ------------------------------------------------------------------ network
Adjacent(i, j) == {i, j} \in links

NeighborsOf(i) == { j \in Nodes : j # i /\ Adjacent(i, j) }

AllEdges == { e \in SUBSET Nodes : Cardinality(e) = 2 }

RECURSIVE ReachFrom(_, _)
ReachFrom(g, S) ==
    LET T == S \cup { j \in Nodes : \E i \in S : {i, j} \in g }
    IN  IF T = S THEN S ELSE ReachFrom(g, T)

ConnectedGraphs == { g \in SUBSET AllEdges : ReachFrom(g, {0}) = Nodes }

\* the chain 0 - 1 - ... - (NumHosts - 1)
LineGraph == { {i, i + 1} : i \in 0..(NumHosts - 2) }

\* the node bound to a transport address
NodeWithIp(ip) == CHOOSE j \in Nodes : IpOf(j) = ip

\* packets in flight: the sender (its address is the L3AddressInd tag the
\* receiver reads), the receiving node and the message
\* (repeats: how often the link layer has handed the frame up and kept it)
InFlight(i, j, m) == [ src |-> i, dst |-> j, msg |-> m, repeats |-> 0 ]

\* one frame per node in range
Multicast(i, m) == SetToBag({ InFlight(i, j, m) : j \in NeighborsOf(i) })

\* one frame per socket.sendTo call of a handler
Transmit(i, sent) == SetToBag({ InFlight(i, NodeWithIp(x.dstIp), x.msg) : x \in sent })

\* the frames on the air, each once
Frames == BagToSet(net)

\* the self-messages pending at node i, each once
Pending(i) == BagToSet(delayed[i])

\* the HELLO frames of node i on the air, copy by copy
HelloInFlight(i) ==
    [ p \in { q \in Frames : q.msg.kind = "HELLO" /\ q.src = i } |-> CopiesIn(p, net) ]

NothingPending == [i \in Nodes |-> EmptyBag]

\* ------------------------------------------------------------------ actions
\* the state after construction, on a connected radio graph
Init ==
    /\ node = [i \in Nodes |-> InitNode]
    /\ net = EmptyBag
    /\ delayed = NothingPending
    /\ now = 0
    /\ up = Nodes
    /\ links \in ConnectedGraphs
    /\ ev = NoEv

\* helloTimer fires at node i: one HELLO, multicast to every node in range,
\* whatever the other nodes have on the air (the queue of the node's own HELLO
\* frames still on the air is capped: fewer than MaxHelloInFlight before the
\* send)
HelloTimer(i) ==
    /\ i \in up
    /\ BagCardinality(HelloInFlight(i)) < MaxHelloInFlight
    /\ node[i].timers["helloTimer"] > 0
    /\ net' = net (+) Multicast(i, HelloOf(i, node[i]))
    /\ node' = [node EXCEPT ![i] = HandleHelloTimer(i, Fired(node[i], "helloTimer"))]
    /\ UNCHANGED <<delayed, now, up, links>>

\* a HELLO arrives at node p.dst
HelloArrives(p) ==
    /\ p \in Frames
    /\ p.msg.kind = "HELLO"
    /\ p.dst \in up
    /\ node' = [node EXCEPT ![p.dst] =
                  HandleHello(p.dst, node[p.dst], p.msg, IpOf(p.src), now)]
    /\ net' = net (-) SetToBag({p})
    /\ UNCHANGED <<delayed, now, up, links>>

\* maintenanceTimer fires at node i
MaintenanceTimer(i) ==
    /\ i \in up
    /\ node[i].timers["maintenanceTimer"] > 0
    /\ node' = [node EXCEPT ![i] =
                  HandleMaintenanceTimer(i, Fired(node[i], "maintenanceTimer"), now)]
    /\ UNCHANGED <<net, delayed, now, up, links>>

\* dataTimer fires at node i and draws targetNode (never i itself)
DataTimerOutcome(i, targetNode) ==
    HandleDataTimer(i, Fired(node[i], "dataTimer"), targetNode)

DataTimer(i, targetNode) ==
    /\ i \in up
    /\ node[i].timers["dataTimer"] > 0
    /\ targetNode \in Nodes \ {i}
    /\ node[i].mySeqNum < MaxSeq
    /\ LET out == DataTimerOutcome(i, targetNode)
       IN  /\ node' = [node EXCEPT ![i] = out.st]
           /\ net' = net (+) Transmit(i, out.sent)
           /\ delayed' = [delayed EXCEPT ![i] = @ (+) SetToBag(out.sched)]
    /\ UNCHANGED <<now, up, links>>

\* the frame p once it has been handed up and kept by the link layer
Repeated(p) == [p EXCEPT !.repeats = @ + 1]

\* a DATA unit arrives at node p.dst; the link layer may hand the same frame up
\* again later (keep), at most MaxRepeats times
DataOutcome(p) == HandleData(p.dst, node[p.dst], p.msg, IpOf(p.src))

DataArrives(p, keep) ==
    /\ p \in Frames
    /\ p.msg.kind = "DATA"
    /\ p.dst \in up
    /\ keep => p.repeats < MaxRepeats
    /\ LET out == DataOutcome(p)
       IN  /\ node' = [node EXCEPT ![p.dst] = out.st]
           /\ net' = ((net (-) SetToBag({p}))
                        (+) (IF keep THEN SetToBag({Repeated(p)}) ELSE EmptyBag))
                     (+) Transmit(p.dst, out.sent)
           /\ delayed' = [delayed EXCEPT ![p.dst] = @ (+) SetToBag(out.sched)]
    /\ UNCHANGED <<now, up, links>>

\* a KIND_DELAYED_FORWARD self-message fires at node i: one pending copy of pk
\* is taken, any identical copy stays scheduled
DelayedOutcome(i, pk) == HandleDelayedForward(node[i], pk)

DelayedForward(i, pk) ==
    /\ i \in up
    /\ pk \in Pending(i)
    /\ LET out == DelayedOutcome(i, pk)
       IN  /\ net' = net (+) Transmit(i, out.sent)
           /\ delayed' = [delayed EXCEPT ![i] = @ (-) SetToBag({pk})]
    /\ UNCHANGED <<node, now, up, links>>

\* finish() at node i: its timers are cancelled and it handles nothing more
Finish(i) ==
    /\ i \in up
    /\ up' = up \ {i}
    /\ node' = [node EXCEPT ![i] = Finished(node[i])]
    /\ UNCHANGED <<net, delayed, now, links>>

\* simulation time advances
Tick ==
    /\ now < MaxTime
    /\ now' = now + 1
    /\ UNCHANGED <<node, net, delayed, up, links>>

\* ------------------------------------------------------- the handler record
EvTimer(op, i) == [NoEv EXCEPT !.op = op, !.node = i, !.pre = node[i]]

EvMaintenance(i) ==
    [EvTimer("maintenance", i) EXCEPT
        !.pruned = ToRemove(node[i].neighborTable, now),
        !.stepColor = HandleColorTimer(i, PruneNeighbors(node[i], now)).currentColor]

EvHello(p) ==
    [NoEv EXCEPT !.op = "hello", !.node = p.dst, !.pre = node[p.dst],
                 !.pkt = p.msg, !.lastHop = p.src]

EvOutcome(op, i, pk, lastHop, out) ==
    [NoEv EXCEPT !.op = op, !.node = i, !.pre = node[i], !.pkt = pk,
                 !.lastHop = lastHop, !.delivered = out.delivered,
                 !.sent = out.sent, !.sched = out.sched]

\* ------------------------------------------------- coloring on a fixed graph
\* hello and maintenance timers only: no data traffic, the clock stands still
\* (so no neighbor times out) and no node leaves
NextColoring ==
    \/ \E i \in Nodes : HelloTimer(i) /\ UNCHANGED ev
    \/ \E p \in Frames : HelloArrives(p) /\ UNCHANGED ev
    \/ \E i \in Nodes : MaintenanceTimer(i) /\ UNCHANGED ev

SpecColoring == Init /\ [][NextColoring]_vars

\* maintenanceTimer fires at node i, the calls of the handler bound one after
\* the other: pruneNeighbors(), handleColorTimer(), recomputeRole(), scheduleAt
\* (the step MaintenanceTimer(i) takes)
MaintenanceStep(i) ==
    /\ i \in up
    /\ node[i].timers["maintenanceTimer"] > 0
    /\ \E fired \in {Fired(node[i], "maintenanceTimer")} :
       \E pruned \in {PruneNeighbors(fired, now)} :
       \E colored \in {HandleColorTimer(i, pruned)} :
       \E settled \in {RecomputeRole(i, colored)} :
          node' = [node EXCEPT ![i] = ScheduleAt(settled, "maintenanceTimer")]
    /\ UNCHANGED <<net, delayed, now, up, links>>

\* on every connected radio graph: every timer keeps firing and the HELLO
\* frames handed to the socket by a node keep arriving
FairColoring ==
    /\ Init /\ [][NextColoring]_vars
    /\ \A i \in Nodes : WF_vars(HelloTimer(i) /\ UNCHANGED ev)
    /\ \A i \in Nodes : WF_vars(MaintenanceStep(i) /\ UNCHANGED ev)
    /\ \A i \in Nodes :
          WF_vars(\E p \in Frames : p.src = i /\ HelloArrives(p) /\ UNCHANGED ev)

\* ------------------------------------------- one node, data units arriving
\* what a neighbor j can advertise between two of its handlers
Adverts(j, colors) ==
    { [ color |-> NoColor, role |-> UNDECIDED, clusterId |-> NoCluster ],
      [ color |-> 0, role |-> CLUSTER_HEAD, clusterId |-> j ] }
    \cup { [ color |-> c, role |-> r, clusterId |-> h ] :
             c \in colors, r \in {MEMBER, GATEWAY}, h \in Nodes \ {j} }

RecordOf(j, a, t) ==
    NeighborInfoOf([ senderId |-> j, color |-> a.color, role |-> a.role,
                     clusterId |-> a.clusterId ], IpOf(j), t)

\* the neighbor tables of node u over the advertisements of the other nodes
TablesOf(u, colors, times) ==
    UNION { { f \in [D -> UNION { { RecordOf(j, a, t) : a \in Adverts(j, colors), t \in times }
                                   : j \in D }] :
                \A j \in D : f[j].neighborId = j }
            : D \in SUBSET (Nodes \ {u}) }

\* the hop budgets tried: exhausted, last hop, one hop used, fresh
TtlValues == {0, 1, InitialTtl - 1, InitialTtl}

\* the routes a Cluster Head can have learned
RoutesOf(u) ==
    {EmptyMap} \cup { [k \in {d} |-> g] : d \in Nodes \ {u}, g \in Nodes \ {u} }

\* node u between two handlers, seq units originated so far
NodeBetweenHandlers(u, c, nt, brt, seq) ==
    RecomputeRole(u, [InitNode EXCEPT
                        !.currentColor = c,
                        !.neighborTable = nt,
                        !.backboneRoutingTable = brt,
                        !.seenDataPackets = { <<u, q>> : q \in 0..(seq - 1) },
                        !.mySeqNum = seq])

OnlyNode(u, s) == [i \in Nodes |-> IF i = u THEN s ELSE InitNode]

\* node u has originated MaxSeq units and one DATA unit is on its way to it: a
\* unit of its own (which has made at least one hop) or of another node
InitArrival ==
    \E u \in Nodes, c \in NoColor..1, h \in Nodes, src \in Nodes, dest \in Nodes,
       ttl \in TtlValues, nextHop \in Nodes :
      \E nt \in TablesOf(u, {1}, {0}), brt \in RoutesOf(u) :
        /\ h # u /\ nextHop # h /\ dest # src
        /\ src = u => ttl \in {0, InitialTtl - 1}
        /\ src # u => ttl # InitialTtl - 1
        /\ node = OnlyNode(u, NodeBetweenHandlers(u, c, nt, brt, MaxSeq))
        /\ net = SetToBag({InFlight(h, u, DataPk(src, 0, ttl, dest, nextHop))})
        /\ up = {u}

\* node u has originated nothing yet and its dataTimer is about to fire
InitOrigination ==
    \E u \in Nodes, c \in NoColor..1 :
      \E nt \in TablesOf(u, {1}, {0}), brt \in RoutesOf(u) :
        /\ node = OnlyNode(u, NodeBetweenHandlers(u, c, nt, brt, 0))
        /\ net = EmptyBag
        /\ up = {u}

InitData ==
    /\ InitArrival \/ InitOrigination
    /\ delayed = NothingPending
    /\ now = 0
    /\ links = AllEdges
    /\ ev = NoEv

NextData ==
    \/ \E i \in Nodes, targetNode \in Nodes :
          /\ DataTimer(i, targetNode)
          /\ ev' = EvOutcome("dataTimer", i, DataPk(i, node[i].mySeqNum, InitialTtl,
                                                    targetNode, NoNextHop),
                             NoLastHop, DataTimerOutcome(i, targetNode))
    \/ \E p \in Frames, keep \in BOOLEAN :
          /\ DataArrives(p, keep)
          /\ ev' = EvOutcome("data", p.dst, p.msg, p.src, DataOutcome(p))
    \/ \E i \in Nodes : \E pk \in Pending(i) :
          /\ DelayedForward(i, pk)
          /\ ev' = EvOutcome("delayed", i, pk, NoLastHop, DelayedOutcome(i, pk))

SpecData == InitData /\ [][NextData]_vars

\* ------------------------------------- one node, advertisements and timers
\* node u between two handlers, with one HELLO on its way to it: a neighbor's,
\* or its own multicast handed back to it
InitControl ==
    \E u \in Nodes, c \in NoColor..MaxColor, h \in Nodes :
      \E nt \in TablesOf(u, 1..MaxColor, {0}), a \in Adverts(h, 1..MaxColor) :
        /\ node = [i \in Nodes |->
                     IF i = u
                     THEN RecomputeRole(u, [InitNode EXCEPT !.currentColor = c,
                                                            !.neighborTable = nt])
                     ELSE InitNode]
        /\ net = SetToBag({ InFlight(h, u, IF h = u
                                  THEN HelloOf(u, node[u])
                                  ELSE [ kind |-> "HELLO", senderId |-> h,
                                         color |-> a.color, role |-> a.role,
                                         clusterId |-> a.clusterId ]) })
        /\ delayed = NothingPending
        /\ now = 0
        /\ up = {u}
        /\ links = AllEdges
        /\ ev = NoEv

NextControl ==
    \/ \E p \in Frames : HelloArrives(p) /\ ev' = EvHello(p)
    \/ \E i \in Nodes : MaintenanceTimer(i) /\ ev' = EvMaintenance(i)
    \/ Tick /\ ev' = [NoEv EXCEPT !.op = "tick"]

SpecControl == InitControl /\ [][NextControl]_vars

\* ---------------------------- one node, data units, advertisements and timers
\* a DATA unit of another node, with one hop left, on its way to node u
RelayedUnit(u, h, src, dest) == InFlight(h, u, DataPk(src, 0, 1, dest, u))

\* node u between two handlers with a DATA unit and a HELLO on their way to it;
\* every record is fresh and stays so.  The unit comes from a node other than
\* its destination (a destination delivers and hands nothing on), and node 0,
\* once recorded with color 0, advertises color 0 (it has no smaller id to
\* yield to)
InitRelayHello ==
    \E u \in Nodes, c \in NoColor..1, h \in Nodes, g \in Nodes, src \in Nodes,
       dest \in Nodes :
      \E nt \in TablesOf(u, {1}, {MaxTime}), brt \in RoutesOf(u), a \in Adverts(g, {1}) :
        /\ h # u /\ g # u /\ src # u /\ dest # src /\ h # dest
        /\ (g = 0 /\ 0 \in DOMAIN nt /\ nt[0].color = 0) => a.color = 0
        /\ node = OnlyNode(u, NodeBetweenHandlers(u, c, nt, brt, MaxSeq))
        /\ net = SetToBag({ RelayedUnit(u, h, src, dest),
                   InFlight(g, u, [ kind |-> "HELLO", senderId |-> g,
                                    color |-> a.color, role |-> a.role,
                                    clusterId |-> a.clusterId ]) })
        /\ now = MaxTime

\* node u between two handlers, one unit still to originate, with a DATA unit on
\* its way to it and records that age
InitRelayAging ==
    \E u \in Nodes, c \in NoColor..1, h \in Nodes, src \in Nodes, dest \in Nodes :
      \E nt \in TablesOf(u, {1}, {0, 1}), brt \in RoutesOf(u) :
        /\ h # u /\ src # u /\ dest # src /\ h # dest
        /\ node = OnlyNode(u, NodeBetweenHandlers(u, c, nt, brt, MaxSeq - 1))
        /\ net = SetToBag({ RelayedUnit(u, h, src, dest) })
        /\ now = 1

InitRelay ==
    /\ InitRelayHello \/ InitRelayAging
    /\ delayed = NothingPending
    /\ up = { i \in Nodes : node[i] # InitNode \/ \E p \in Frames : p.dst = i }
    /\ links = AllEdges
    /\ ev = NoEv

NextRelay ==
    \/ \E i \in Nodes, targetNode \in Nodes :
          /\ DataTimer(i, targetNode)
          /\ ev' = EvOutcome("dataTimer", i, DataPk(i, node[i].mySeqNum, InitialTtl,
                                                    targetNode, NoNextHop),
                             NoLastHop, DataTimerOutcome(i, targetNode))
    \/ \E p \in Frames :
          /\ DataArrives(p, FALSE)
          /\ ev' = EvOutcome("data", p.dst, p.msg, p.src, DataOutcome(p))
    \/ \E i \in Nodes : \E pk \in Pending(i) :
          /\ DelayedForward(i, pk)
          /\ ev' = EvOutcome("delayed", i, pk, NoLastHop, DelayedOutcome(i, pk))
    \/ NextControl

SpecRelay == InitRelay /\ [][NextRelay]_vars

\* ------------------------------------------- the whole network, from start-up
\* the state after construction, on any radio graph
InitNetwork ==
    /\ node = [i \in Nodes |-> InitNode]
    /\ net = EmptyBag
    /\ delayed = NothingPending
    /\ now = 0
    /\ up = Nodes
    /\ links \in SUBSET AllEdges
    /\ ev = NoEv

\* the units originated so far
UnitsOriginated == Cardinality(UNION { node[i].seenDataPackets \cap ({i} \X (0..MaxSeq)) : i \in Nodes })

\* one more HELLO multicast in this run
EvHelloSent == [ev EXCEPT !.hellos = @ + 1]

\* every timer and every arrival; a run has at most MaxHellos HELLO multicasts
\* and MaxUnits originations, and the clock stands still
NextNetwork ==
    \/ \E i \in Nodes : ev.hellos < MaxHellos /\ HelloTimer(i) /\ ev' = EvHelloSent
    \/ \E p \in Frames : HelloArrives(p) /\ UNCHANGED ev
    \/ \E i \in Nodes : MaintenanceTimer(i) /\ UNCHANGED ev
    \/ \E i \in Nodes, targetNode \in Nodes :
          /\ UnitsOriginated < MaxUnits
          /\ DataTimer(i, targetNode)
          /\ UNCHANGED ev
    \/ \E p \in Frames : DataArrives(p, FALSE) /\ UNCHANGED ev
    \/ \E i \in Nodes : \E pk \in Pending(i) : DelayedForward(i, pk) /\ UNCHANGED ev

SpecNetwork == InitNetwork /\ [][NextNetwork]_vars

\* every DATA packet handed to the socket arrives and every scheduled
\* self-message fires
FairNetwork ==
    /\ SpecNetwork
    /\ WF_vars(\E p \in Frames : DataArrives(p, FALSE) /\ UNCHANGED ev)
    /\ WF_vars(\E i \in Nodes : \E pk \in Pending(i) : DelayedForward(i, pk) /\ UNCHANGED ev)

\* ------------------------------------- every handler, from start-up to finish
\* which handler ran last
EvRan(op) == [NoEv EXCEPT !.op = op]

\* the network after initialize(): the configured number of hosts is NumHosts,
\* in a chain, or 1 (a single host, with nobody in range)
InitTimers ==
    \E n \in {1, NumHosts} :
        /\ node = [i \in Nodes |-> [InitNode EXCEPT !.numHosts = n]]
        /\ up = 0..(n - 1)
        /\ links = IF n = 1 THEN {} ELSE LineGraph
        /\ net = EmptyBag
        /\ delayed = NothingPending
        /\ now = 0
        /\ ev = NoEv

NextTimers ==
    \/ \E i \in Nodes : HelloTimer(i) /\ ev' = EvRan("helloTimer")
    \/ \E p \in Frames : HelloArrives(p) /\ ev' = EvRan("hello")
    \/ \E i \in Nodes : MaintenanceTimer(i) /\ ev' = EvRan("maintenance")
    \/ \E i \in Nodes, targetNode \in Nodes :
          /\ UnitsOriginated < MaxUnitsTimers
          /\ DataTimer(i, targetNode)
          /\ ev' = EvRan("dataTimer")
    \/ \E p \in Frames : DataArrives(p, FALSE) /\ ev' = EvRan("data")
    \/ \E i \in Nodes : \E pk \in Pending(i) :
          DelayedForward(i, pk) /\ ev' = EvRan("delayed")
    \/ \E i \in Nodes : Finish(i) /\ ev' = EvRan("finish")

SpecTimers == InitTimers /\ [][NextTimers]_vars

\* ------------------------------- the whole network, the handler record kept
\* the deliveries to the application so far (numDataReceived++, one
\* pdrReceivedSignal each), by receiving node and unit
Delivered(log, i, pk, out) ==
    IF out.delivered THEN log (+) SetToBag({<<i, pk.srcId, pk.seqNum>>}) ELSE log

\* of the state of a node, its role and cluster
RoleOf(s) == [InitNode EXCEPT !.role = s.role, !.clusterId = s.clusterId]

\* the record of a handler of node i: the handler, the role and cluster it ran
\* with, what it handed to the socket and what it scheduled; the counts of the
\* run are carried over
EvRole(op, i, out) ==
    [ev EXCEPT !.op = op, !.node = i, !.pre = RoleOf(node[i]), !.pkt = NoPkt,
               !.delivered = FALSE, !.sent = out.sent, !.sched = out.sched]

\* the record of an arrival: the unit as well, and whether it was delivered
EvArrival(p, out) ==
    [EvRole("data", p.dst, out) EXCEPT
        !.pkt = p.msg, !.delivered = out.delivered,
        !.deliveries = Delivered(ev.deliveries, p.dst, p.msg, out)]

\* as NextNetwork, with at most MaxUnitsTimers originations and the link layer
\* handing a frame up once or twice
NextDelivery ==
    \/ \E i \in Nodes : ev.hellos < MaxHellos /\ HelloTimer(i) /\ ev' = EvHelloSent
    \/ \E p \in Frames : HelloArrives(p) /\ UNCHANGED ev
    \/ \E i \in Nodes : MaintenanceTimer(i) /\ UNCHANGED ev
    \/ \E i \in Nodes, targetNode \in Nodes :
          /\ UnitsOriginated < MaxUnitsTimers
          /\ DataTimer(i, targetNode)
          /\ ev' = EvRole("dataTimer", i, DataTimerOutcome(i, targetNode))
    \/ \E p \in Frames, keep \in BOOLEAN :
          /\ DataArrives(p, keep)
          /\ ev' = EvArrival(p, DataOutcome(p))
    \/ \E i \in Nodes : \E pk \in Pending(i) :
          /\ DelayedForward(i, pk)
          /\ ev' = EvRole("delayed", i, DelayedOutcome(i, pk))

SpecDelivery == InitNetwork /\ [][NextDelivery]_vars

\* ------------------------------------ a chain, from start-up, records aging
\* the state after construction, the hosts in a chain
InitAging == InitNetwork /\ links = LineGraph

\* as NextNetwork, with at most MaxUnitsTimers originations and the clock
\* advancing
NextAging ==
    \/ \E i \in Nodes : ev.hellos < MaxHellos /\ HelloTimer(i) /\ ev' = EvHelloSent
    \/ \E p \in Frames : HelloArrives(p) /\ UNCHANGED ev
    \/ \E i \in Nodes : MaintenanceTimer(i) /\ UNCHANGED ev
    \/ \E i \in Nodes, targetNode \in Nodes :
          /\ UnitsOriginated < MaxUnitsTimers
          /\ DataTimer(i, targetNode)
          /\ ev' = EvRole("dataTimer", i, DataTimerOutcome(i, targetNode))
    \/ \E p \in Frames :
          /\ DataArrives(p, FALSE)
          /\ ev' = EvArrival(p, DataOutcome(p))
    \/ \E i \in Nodes : \E pk \in Pending(i) :
          /\ DelayedForward(i, pk)
          /\ ev' = EvRole("delayed", i, DelayedOutcome(i, pk))
    \/ Tick /\ UNCHANGED ev

SpecAging == InitAging /\ [][NextAging]_vars

\* ====================================================================
\* Claims
\* ====================================================================
\* ---------------------------------------------------------- coloring claims
Colored(i) == node[i].currentColor >= 0

ProperColoring ==
    \A i, j \in Nodes :
        Adjacent(i, j) /\ i # j => node[i].currentColor # node[j].currentColor

\* no maintenance cycle would change the color of its node
ColorsStable ==
    \A i \in Nodes :
        HandleMaintenanceTimer(i, node[i], now).currentColor = node[i].currentColor

Converged == (\A i \in Nodes : Colored(i)) /\ ColorsStable /\ ProperColoring


ColorZeroNeighbors(i) ==
    { k \in DOMAIN node[i].neighborTable : node[i].neighborTable[k].color = 0 }

\* every neighbor table holds exactly the nodes in range, with their current color
TablesCurrent ==
    \A i \in Nodes :
        /\ DOMAIN node[i].neighborTable = NeighborsOf(i)
        /\ \A j \in NeighborsOf(i) :
              node[i].neighborTable[j].color = node[j].currentColor

ColoringFixedPoint == ColorsStable /\ TablesCurrent

ColorsAre(c0, c1, c2) ==
    /\ node[0].currentColor = c0
    /\ node[1].currentColor = c1
    /\ node[2].currentColor = c2

\* C1: on every connected graph, with hellos delivered, no neighbor timing out
\* and every hello and maintenance timer
\* firing again and again, the network reaches and then stays in a state where
\* every node is colored, no maintenance cycle changes a color and no two
\* adjacent nodes hold the same color.
C1_Convergence == <>[]Converged

\* the triangle, settled
C1_Witness == links = AllEdges /\ Converged /\ TablesCurrent /\ net = EmptyBag

\* C6 as stated: at a coloring fixed point every neighbor table holds at most
\* one neighbor of color 0.
C6_Original ==
    ColoringFixedPoint =>
        \A i \in Nodes : Cardinality(ColorZeroNeighbors(i)) <= 1

\* C6 amended: at a coloring fixed point the color-0 neighbors in a node's table
\* are out of each other's range, and a node of color 0 has no neighbor of
\* color 0 (two Cluster Heads never hear each other; a node between two of them
\* hears both).
C6_HeadsApart ==
    ColoringFixedPoint =>
        \A i \in Nodes :
            /\ \A j, k \in ColorZeroNeighbors(i) : j # k => ~Adjacent(j, k)
            /\ node[i].currentColor = 0 => ColorZeroNeighbors(i) = {}

C6_Witness ==
    /\ ColoringFixedPoint
    /\ \E i \in Nodes : Cardinality(ColorZeroNeighbors(i)) = 2

\* C10 as stated: on the line 0 - 1 - 2 (scenario A's 1 - 2 - 3) a converged
\* network has the smallest id at color 0, the two others at color 1, and no two
\* neighbors with one color.
C10_Original ==
    (links = LineGraph /\ ColoringFixedPoint)
        => (ColorsAre(0, 1, 1) /\ ProperColoring)

\* C10 amended: on that line a converged network has either both ends at color
\* 0 and the middle node at color 1, or the middle node at color 0 and both ends
\* at color 1; no two neighbors share a color.
C10_LineColors ==
    (links = LineGraph /\ ColoringFixedPoint)
        => /\ ColorsAre(0, 1, 0) \/ ColorsAre(1, 0, 1)
           /\ ProperColoring

C10_Witness ==
    links = LineGraph /\ ColoringFixedPoint /\ ColorsAre(0, 1, 0) /\ net = EmptyBag

\* ------------------------------------------------ what the last handler did
EvNode == node[ev.node]

EvCopies == { x.msg : x \in ev.sent } \cup ev.sched

EvSilent == ~ev.delivered /\ ev.sent = {} /\ ev.sched = {}

EvKey == <<ev.pkt.srcId, ev.pkt.seqNum>>

DataArrived == ev.op = "data"

PassedAddressing ==
    ev.pkt.nextHopId = NoNextHop \/ ev.pkt.nextHopId = ev.node

SeenBefore == EvKey \in ev.pre.seenDataPackets

\* the immediate sender is the neighbor recorded as this node's Cluster Head
SenderIsOwnCH ==
    /\ ev.pre.clusterId \in DOMAIN ev.pre.neighborTable
    /\ ev.pre.neighborTable[ev.pre.clusterId].ipAddress = IpOf(ev.lastHop)

Decremented(pk, nextHop) ==
    DataPk(pk.srcId, pk.seqNum, pk.ttl - 1, pk.destNodeId, nextHop)

\* C2, second arrival: a unit already recorded at a node that is not its source
\* causes no delivery, no transmission and no scheduled send.
C2_SecondArrivalSilent ==
    (DataArrived /\ PassedAddressing /\ ev.pkt.srcId # ev.node /\ SeenBefore)
        => EvSilent

\* C2, first arrival: a unit not yet recorded is recorded, so that the next
\* arrival is a second one.
C2_FirstArrivalRecorded ==
    (DataArrived /\ PassedAddressing /\ ev.pkt.srcId # ev.node /\ ~SeenBefore)
        => EvKey \in EvNode.seenDataPackets

\* C2 amended: two arrivals of one (sourceId, sequenceNumber) at a node that is
\* not its source, both past the addressing filter, cause at most one
\* delivery-or-forward event: the second causes none, and the first is
\* delivered, forwarded or dropped (Member, Undecided, exhausted TTL, nobody to
\* forward to).
C2_AtMostOneEvent == C2_SecondArrivalSilent /\ C2_FirstArrivalRecorded

\* C2 as stated: exactly one event, the first arrival being delivered or
\* forwarded.
C2_Original ==
    /\ C2_AtMostOneEvent
    /\ (DataArrived /\ PassedAddressing /\ ev.pkt.srcId # ev.node /\ ~SeenBefore)
          => ~EvSilent

\* a second arrival at a node that has forwarded the first
C2_Witness ==
    /\ DataArrived /\ PassedAddressing /\ ev.pkt.srcId # ev.node /\ SeenBefore
    /\ EvSilent
    /\ Pending(ev.node) # {} \/ \E p \in Frames : p.src = ev.node

\* C3: every copy a node forwards, at once or scheduled, carries the received
\* TTL minus one, a delayed copy is transmitted with the TTL it was scheduled
\* with, and a unit received with TTL <= 0 by a node that is not its destination
\* is neither forwarded nor scheduled.
C3_TtlMonotonic ==
    /\ DataArrived =>
          /\ \A c \in EvCopies : c.ttl = ev.pkt.ttl - 1
          /\ (ev.pkt.ttl <= 0 /\ ev.pkt.destNodeId # ev.node)
                => (ev.sent = {} /\ ev.sched = {})
    /\ ev.op = "delayed" => \A c \in EvCopies : c.ttl = ev.pkt.ttl

C3_Witness ==
    DataArrived /\ ev.pkt.ttl = 1 /\ ev.sched # {} /\ ev.pre.role = GATEWAY

\* C7: an already-seen unit gets past the duplicate filter exactly when this
\* node is its source, is a Gateway and hears it from its own Cluster Head (it
\* is then bridged out like a fresh unit); any other already-seen unit is
\* discarded without delivery or forwarding.
Readmissible ==
    ev.pkt.srcId = ev.node /\ ev.pre.role = GATEWAY /\ SenderIsOwnCH

C7_Readmission ==
    (DataArrived /\ PassedAddressing /\ SeenBefore) =>
        /\ ~Readmissible => EvSilent
        /\ (Readmissible /\ ev.pkt.ttl > 0) =>
              /\ ev.sched = { Decremented(ev.pkt, k) : k \in ForeignBackbone(ev.pre) }
              /\ ev.sent = {}
              /\ ~ev.delivered

C7_Witness ==
    DataArrived /\ PassedAddressing /\ SeenBefore /\ Readmissible /\ ev.sched # {}

\* origination: a Member or Gateway hands exactly one copy of its unit to
\* the socket, addressed to its own Cluster Head with that Cluster Head as next
\* hop, and schedules nothing.
C8_Uplink ==
    (ev.op = "dataTimer" /\ ev.pre.role \in {MEMBER, GATEWAY}) =>
        /\ ev.sched = {}
        /\ ev.sent = { SendTo(DataPk(ev.node, ev.pre.mySeqNum, InitialTtl,
                                      ev.pkt.destNodeId, ev.pre.clusterId),
                               IpOf(ev.pre.clusterId)) }

\* a Cluster Head takes in a unit whose destination is not in its table and for
\* which it has no cached route
ChWithoutRoute ==
    /\ DataArrived /\ PassedAddressing /\ ~SeenBefore
    /\ ev.pre.role = CLUSTER_HEAD
    /\ ev.pkt.ttl > 0
    /\ ev.pkt.destNodeId \notin DOMAIN ev.pre.neighborTable
    /\ ev.pkt.destNodeId \notin DOMAIN ev.pre.backboneRoutingTable

FloodToGateways ==
    /\ ev.sent = {}
    /\ ev.sched = { Decremented(ev.pkt, k) :
                      k \in { j \in DOMAIN ev.pre.neighborTable :
                                ev.pre.neighborTable[j].role = GATEWAY } }

\* C8 (scenario C, a unit bound for a node other than the Cluster Head): the
\* originating Member or Gateway uplinks one copy to its own Cluster Head and
\* to nobody else; the Cluster Head that takes it in, with the destination not
\* in its table and no cached route, schedules one copy for each neighbor
\* recorded as Gateway and for no one else, and transmits nothing at once.
C8_UplinkThenFlood ==
    /\ C8_Uplink
    /\ (ChWithoutRoute /\ ev.pkt.destNodeId # ev.node) => FloodToGateways

\* the Cluster Head floods a unit that its originator has just uplinked
C8_Witness ==
    /\ ChWithoutRoute /\ ev.pkt.destNodeId # ev.node
    /\ ev.pkt.ttl = InitialTtl /\ ev.pkt.srcId = ev.lastHop
    /\ ev.sched # {}

\* C4: a maintenance cycle at time now removes exactly the records with
\* now - lastHeard > neighborTimeout and leaves the others as they were; until
\* then a record stays in the table, whatever its age, and a stale color-0
\* record still counts when the Cluster Head is chosen.
C4_Eviction ==
    /\ ev.op = "maintenance" =>
          /\ DOMAIN EvNode.neighborTable =
                { k \in DOMAIN ev.pre.neighborTable :
                    ~(now - ev.pre.neighborTable[k].lastHeard > neighborTimeout) }
          /\ \A k \in DOMAIN EvNode.neighborTable :
                EvNode.neighborTable[k] = ev.pre.neighborTable[k]
    /\ ev.op = "hello" =>
          /\ \A k \in DOMAIN ev.pre.neighborTable \ {ev.pkt.senderId} :
                /\ k \in DOMAIN EvNode.neighborTable
                /\ EvNode.neighborTable[k] = ev.pre.neighborTable[k]
          /\ EvNode.role \in {MEMBER, GATEWAY} =>
                EvNode.clusterId =
                    MinOf({ k \in DOMAIN EvNode.neighborTable :
                              EvNode.neighborTable[k].color = 0 })

\* a cycle that removes a record and keeps one that is exactly at the threshold
C4_Witness ==
    /\ ev.op = "maintenance"
    /\ DOMAIN ev.pre.neighborTable \ DOMAIN EvNode.neighborTable # {}
    /\ \E k \in DOMAIN EvNode.neighborTable :
          now - EvNode.neighborTable[k].lastHeard = neighborTimeout

\* C5: after a handler has run recomputeRole, running it again on the same
\* table leaves role, clusterId and color (the whole node) as they are.
C5_RoleIdempotent ==
    \A i \in up : RecomputeRole(i, node[i]) = node[i]

\* the first run demoted the node to Undecided and reset its color
C5_Witness ==
    /\ ev.op \in {"maintenance", "hello"}
    /\ ev.pre.currentColor > 0
    /\ EvNode.currentColor = NoColor /\ EvNode.role = UNDECIDED
    /\ EvNode.neighborTable # EmptyMap

\* a maintenance cycle evicts a color-0 record that has been silent for longer
\* than neighborTimeout and no color-0 record remains
ChEvicted ==
    /\ ev.op = "maintenance"
    /\ \E k \in DOMAIN ev.pre.neighborTable :
          /\ ev.pre.neighborTable[k].color = 0
          /\ now - ev.pre.neighborTable[k].lastHeard > neighborTimeout
          /\ k \notin DOMAIN EvNode.neighborTable
    /\ \A k \in DOMAIN EvNode.neighborTable : EvNode.neighborTable[k].color # 0

IsClusterHead(s) == s.currentColor = 0 /\ s.role = CLUSTER_HEAD

\* among nodes of color 0 that hear each other the lowest id keeps color 0
LowestIdKeepsZero ==
    ( /\ ev.op = "maintenance"
      /\ ev.pre.currentColor = 0
      /\ \A k \in DOMAIN EvNode.neighborTable :
            EvNode.neighborTable[k].color = 0 => k > ev.node )
        => IsClusterHead(EvNode)

\* C9 as stated: the cycle that evicts the silent Cluster Head and leaves no
\* color-0 record makes the node a Cluster Head of color 0.
C9_Original ==
    /\ ChEvicted => IsClusterHead(EvNode)
    /\ LowestIdKeepsZero

\* C9 amended: that cycle makes the node a Cluster Head of color 0 when its
\* table is not left empty or it held no color above 0; a node of color > 0
\* whose table is left empty is demoted to Undecided with its color reset, and
\* the maintenance cycle of an uncolored node that hears no color 0 makes it a
\* Cluster Head of color 0.
C9_ChLossRecovery ==
    /\ ChEvicted =>
          IF EvNode.neighborTable = EmptyMap /\ ev.pre.currentColor > 0
          THEN EvNode.currentColor = NoColor /\ EvNode.role = UNDECIDED
          ELSE IsClusterHead(EvNode)
    /\ ( /\ ev.op = "maintenance"
         /\ ev.pre.currentColor = NoColor
         /\ \A k \in DOMAIN EvNode.neighborTable : EvNode.neighborTable[k].color # 0 )
          => IsClusterHead(EvNode)
    /\ LowestIdKeepsZero

\* a Member loses its Cluster Head and takes color 0 in the same cycle
C9_Witness ==
    /\ ChEvicted
    /\ ev.pre.role = MEMBER
    /\ IsClusterHead(EvNode)

\* the copies a handler transmits at once
EvSentCopies == { x.msg : x \in ev.sent }

DataHandlerRan == ev.op \in {"data", "dataTimer", "delayed"}

\* an uplink of a unit this node originates itself
IsOwnUplink(x) ==
    /\ x.msg.srcId = ev.node
    /\ x.msg.nextHopId = ev.pre.clusterId
    /\ x.dstIp = IpOf(ev.pre.clusterId)

\* C11: a node that is Member when a data unit arrives neither transmits nor
\* schedules a copy of it, and whatever a node transmits while its role is
\* Member is an uplink of a unit it originates itself.
C11_MemberStop ==
    /\ (DataArrived /\ ev.pre.role = MEMBER) => (ev.sent = {} /\ ev.sched = {})
    /\ (DataHandlerRan /\ ev.pre.role = MEMBER) =>
          \A x \in ev.sent : ev.op = "dataTimer" /\ IsOwnUplink(x)

\* no DATA packet on the air and no delayed send pending
Quiet == (\A p \in Frames : p.msg.kind # "DATA") /\ delayed = NothingPending

PendingCopies ==
    { p.msg : p \in { q \in Frames : q.msg.kind = "DATA" } }
    \cup UNION { Pending(i) : i \in Nodes }

TtlInRange == \A pk \in PendingCopies : pk.ttl \in 0..InitialTtl

\* the elements of which bag b holds more copies than bag a
Added(a, b) == { x \in BagToSet(b) : CopiesIn(x, b) > CopiesIn(x, a) }

\* a step in which node i originates a unit hands out copies of TTL 10 only
OriginatesWithFullTtl ==
    \A i \in Nodes :
        node'[i].mySeqNum > node[i].mySeqNum =>
            \A pk \in { p.msg : p \in Added(net, net') } \cup Added(delayed[i], delayed'[i]) :
                pk.ttl = InitialTtl /\ pk.srcId = i

Relays ==
    /\ DataArrived /\ PassedAddressing
    /\ ~SeenBefore \/ Readmissible
    /\ ev.pkt.destNodeId # ev.node
    /\ ev.pkt.ttl > 0

Originates == ev.op = "dataTimer"

DestIsNeighbor == ev.pkt.destNodeId \in DOMAIN ev.pre.neighborTable

\* the route cache names a gateway for the destination
HasCachedRoute == ev.pkt.destNodeId \in DOMAIN ev.pre.backboneRoutingTable

CachedGw == ev.pre.backboneRoutingTable[ev.pkt.destNodeId]

\* ... and that gateway is in the neighbor table with role Gateway
CachedGwValid ==
    /\ HasCachedRoute
    /\ CachedGw \in DOMAIN ev.pre.neighborTable
    /\ ev.pre.neighborTable[CachedGw].role = GATEWAY

AsHead == ev.pre.role = CLUSTER_HEAD

AtOnceOnly == ev.sched = {} /\ Cardinality(ev.sent) = 1

DelayedOnly == ev.sent = {}

\* the sends on which code and claim agree: unicast to a neighbor destination,
\* uplink and Gateway-inbound relay at once; flood copies, Gateway bridge copies
\* and the forwarding path's cached-gateway copy delayed; a delayed copy is
\* transmitted by the timer event, unchanged
JitterCommon ==
    /\ ((Relays \/ Originates) /\ AsHead /\ DestIsNeighbor) => AtOnceOnly
    /\ ((Relays \/ Originates) /\ AsHead /\ ~DestIsNeighbor /\ ~CachedGwValid)
          => DelayedOnly
    /\ (Relays /\ AsHead /\ ~DestIsNeighbor /\ CachedGwValid)
          => (DelayedOnly /\ ev.sched = { Decremented(ev.pkt, CachedGw) })
    /\ (Relays /\ ev.pre.role = GATEWAY /\ SenderIsOwnCH) => DelayedOnly
    /\ (Relays /\ ev.pre.role = GATEWAY /\ ~SenderIsOwnCH) => AtOnceOnly
    /\ (Originates /\ ev.pre.role \in {MEMBER, GATEWAY}) => AtOnceOnly
    /\ ev.op = "delayed" =>
          (ev.sched = {} /\ \A x \in ev.sent : x.msg = ev.pkt)

OriginatesWithCachedRoute ==
    Originates /\ AsHead /\ ~DestIsNeighbor /\ CachedGwValid

\* C13 as stated: the cached-gateway send is delayed on the origination path
\* too.
C13_Original ==
    /\ JitterCommon
    /\ OriginatesWithCachedRoute => (DelayedOnly /\ ev.sched # {})

\* C13 amended: flood copies (both paths), Gateway bridge copies and the
\* forwarding path's cached-gateway copy are delayed sends transmitted by a
\* later timer event; unicast to a neighbor destination, uplink, Gateway-inbound
\* relay and the originating Cluster Head's cached-gateway send are transmitted
\* inside the handler.
C13_JitterDiscipline ==
    /\ JitterCommon
    /\ OriginatesWithCachedRoute =>
          /\ ev.sched = {}
          /\ ev.sent = { SendTo(DataPk(ev.node, ev.pre.mySeqNum, InitialTtl,
                                        ev.pkt.destNodeId, CachedGw),
                                 IpOf(CachedGw)) }

\* an originating Cluster Head sends along its cached route
C13_Witness == OriginatesWithCachedRoute /\ ev.sent # {}

\* the neighbor records whose address is the immediate sender's and whose
\* recorded role is Gateway
SenderAsGateway ==
    { g \in DOMAIN ev.pre.neighborTable :
        /\ ev.pre.neighborTable[g].ipAddress = IpOf(ev.lastHop)
        /\ ev.pre.neighborTable[g].role = GATEWAY }

\* the route-cache keys the last handler added or overwrote
RoutesWritten ==
    { k \in DOMAIN EvNode.backboneRoutingTable :
        \/ k \notin DOMAIN ev.pre.backboneRoutingTable
        \/ EvNode.backboneRoutingTable[k] # ev.pre.backboneRoutingTable[k] }

\* C14: a route-cache entry is added or overwritten only by the reception of a
\* data unit at a node that is Cluster Head at that moment, for the unit's
\* source, with the neighbor that has the sender's address and is recorded as
\* Gateway; such a reception does set it; a HELLO, a timer, an origination, a
\* delayed send or a reception in another role writes none.
C14_RouteLearning ==
    ev.node \in Nodes =>
        /\ \A k \in RoutesWritten :
              /\ DataArrived /\ ev.pre.role = CLUSTER_HEAD
              /\ k = ev.pkt.srcId
              /\ EvNode.backboneRoutingTable[k] \in SenderAsGateway
        /\ (DataArrived /\ ev.pre.role = CLUSTER_HEAD /\ SenderAsGateway # {}) =>
              /\ ev.pkt.srcId \in DOMAIN EvNode.backboneRoutingTable
              /\ EvNode.backboneRoutingTable[ev.pkt.srcId] \in SenderAsGateway

\* a Cluster Head overwrites the route it held for the unit's source
C14_Witness ==
    /\ DataArrived /\ ev.pre.role = CLUSTER_HEAD
    /\ ev.pkt.srcId \in DOMAIN ev.pre.backboneRoutingTable
    /\ ev.pkt.srcId \in RoutesWritten

\* a Cluster Head, relaying a fresh unit or originating one, consults the route
\* cache for a non-neighbor destination and the cached gateway fails the check
ConsultsStaleRoute ==
    /\ (Relays /\ ~SeenBefore) \/ Originates
    /\ AsHead /\ ~DestIsNeighbor
    /\ HasCachedRoute /\ ~CachedGwValid

\* the copy a Cluster Head hands on: hop budget reduced when relaying, full when
\* originating
HandedOn(nextHop) ==
    IF Originates
    THEN DataPk(ev.node, ev.pre.mySeqNum, InitialTtl, ev.pkt.destNodeId, nextHop)
    ELSE Decremented(ev.pkt, nextHop)

\* C15: a Cluster Head whose cached gateway for a non-neighbor destination is
\* missing from the neighbor table or no longer recorded as Gateway removes the
\* entry, floods one delayed copy to each neighbor recorded as Gateway and
\* sends nothing toward the cached gateway.
C15_StaleRouteEviction ==
    ConsultsStaleRoute =>
        /\ ev.pkt.destNodeId \notin DOMAIN EvNode.backboneRoutingTable
        /\ ev.sent = {}
        /\ ev.sched = { HandedOn(k) :
                          k \in { j \in DOMAIN ev.pre.neighborTable :
                                    ev.pre.neighborTable[j].role = GATEWAY } }
        /\ \A pk \in ev.sched : pk.nextHopId # CachedGw

\* the entry is gone and a Gateway neighbor gets the flood copy
C15_Witness == ConsultsStaleRoute /\ ev.sched # {} /\ Relays

DelayedFired == ev.op = "delayed"

NextHopKnown == ev.pkt.nextHopId \in DOMAIN ev.pre.neighborTable

\* what the handler of a fired delayed send does
DelayedSendOrDrop ==
    DelayedFired =>
        /\ NextHopKnown =>
              ev.sent = { SendTo(ev.pkt,
                                 ev.pre.neighborTable[ev.pkt.nextHopId].ipAddress) }
        /\ ~NextHopKnown => ev.sent = {}
        /\ ev.sched = {}
        /\ EvNode = ev.pre

\* a step in which a delayed send fires takes exactly the fired copy out of the
\* pending self-messages of its node
FiredCopyGone ==
    ev'.op = "delayed" =>
        delayed' = [delayed EXCEPT ![ev'.node] = @ (-) SetToBag({ev'.pkt})]

\* C16: when a delayed send fires, the unit is transmitted, unchanged, to the
\* address recorded for its next hop if and only if that next hop is in the
\* neighbor table at that moment, whatever role is recorded for it; otherwise
\* nothing is transmitted; in both cases nothing is scheduled and the copy is
\* no longer pending.
C16_DelayedForwardDrop == []DelayedSendOrDrop /\ [][FiredCopyGone]_vars

\* the next hop was pruned while the copy was pending
C16_Witness == DelayedFired /\ ~NextHopKnown /\ ev.sent = {}

\* ------------------------------------------ the coloring step of a maintenance
ColoringStepRan == ev.op = "maintenance"

\* the table the coloring step reads (pruning done) and the colors recorded in it
StepTable == EvNode.neighborTable

StepColors == { StepTable[k].color : k \in DOMAIN StepTable }

\* the node is colored and a record with a smaller id holds the same color
LostTieBreak ==
    /\ ev.pre.currentColor >= 0
    /\ \E k \in DOMAIN StepTable :
          StepTable[k].color = ev.pre.currentColor /\ k < ev.node

\* c is the smallest integer >= from that no record holds
IsSmallestFree(c, from) ==
    /\ c >= from
    /\ c \notin StepColors
    /\ \A d \in from..(c - 1) : d \in StepColors

\* C17: a colored node that has not lost a tie-break against a smaller id is
\* never moved up (a node of color 0 whose color is shared only by larger ids
\* keeps it); a node that is uncolored or has lost the tie-break gets the
\* smallest non-negative integer that no neighbor record holds.
C17_ConflictAndGreedy ==
    ColoringStepRan =>
        /\ (ev.pre.currentColor >= 0 /\ ~LostTieBreak) =>
              /\ ev.stepColor <= ev.pre.currentColor
              /\ ev.pre.currentColor = 0 => ev.stepColor = 0
        /\ (ev.pre.currentColor < 0 \/ LostTieBreak) => IsSmallestFree(ev.stepColor, 0)

\* a node loses the tie-break and moves up, past a color held by a neighbor
C17_Witness ==
    /\ ColoringStepRan /\ LostTieBreak
    /\ ev.stepColor > ev.pre.currentColor + 1

\* colored with a color above 0, no lost tie-break, no record of color 0
RecoveryCase ==
    /\ ColoringStepRan
    /\ ev.pre.currentColor > 0
    /\ ~LostTieBreak
    /\ 0 \notin StepColors

\* C18 as stated: in that case the step sets color 0, whatever the table, an
\* empty one included.
C18_Original == RecoveryCase => ev.stepColor = 0

\* C18 amended: in that case the step sets color 0 when the table is not
\* empty; with an empty table it does not claim color 0 (the color is kept, or
\* compacted to 1) and recomputeRole then resets the node to uncolored.
C18_ChRecovery ==
    RecoveryCase =>
        IF StepTable # EmptyMap
        THEN ev.stepColor = 0
        ELSE /\ ev.stepColor = 1
             /\ EvNode.currentColor = NoColor

C18_Witness == RecoveryCase /\ StepTable # EmptyMap /\ ev.stepColor = 0

\* color above 0, no lost tie-break, CH recovery not applicable
CompactionCase ==
    /\ ColoringStepRan
    /\ ev.pre.currentColor > 0
    /\ ~LostTieBreak
    /\ 0 \in StepColors \/ StepTable = EmptyMap

\* C19: in the compaction case the new color is min(c, k), k the smallest
\* integer >= 1 that no neighbor record holds: never above c, never 0.
C19_Compaction ==
    CompactionCase =>
        LET k == CHOOSE c \in 1..(Cardinality(StepColors) + 1) : IsSmallestFree(c, 1)
        IN  /\ ev.stepColor = IF k < ev.pre.currentColor THEN k ELSE ev.pre.currentColor
            /\ ev.stepColor <= ev.pre.currentColor
            /\ ev.stepColor >= 1

\* a node moves down to a free color
C19_Witness ==
    CompactionCase /\ ev.stepColor < ev.pre.currentColor /\ StepTable # EmptyMap

\* the color recomputeRole starts from in the last HELLO or maintenance handler
RoleInputColor ==
    IF ev.op = "maintenance" THEN ev.stepColor ELSE ev.pre.currentColor

ZeroRecords == { k \in DOMAIN StepTable : StepTable[k].color = 0 }

\* C20: recomputeRole yields Undecided without cluster for an unassigned color,
\* Cluster Head of its own cluster for color 0, and otherwise the smallest id
\* among the color-0 neighbor records as clusterId (no cluster when there is
\* none).
C20_RoleAndCluster ==
    ev.op \in {"maintenance", "hello"} =>
        /\ RoleInputColor < 0 =>
              (EvNode.role = UNDECIDED /\ EvNode.clusterId = NoCluster)
        /\ RoleInputColor = 0 =>
              (EvNode.role = CLUSTER_HEAD /\ EvNode.clusterId = ev.node)
        /\ (RoleInputColor > 0 /\ ZeroRecords # {}) =>
              /\ EvNode.clusterId \in ZeroRecords
              /\ \A k \in ZeroRecords : EvNode.clusterId <= k
              /\ EvNode.role \in {MEMBER, GATEWAY}
        /\ (RoleInputColor > 0 /\ ZeroRecords = {}) =>
              EvNode.clusterId = NoCluster

\* two Cluster Heads in range, the smaller id is chosen
C20_Witness ==
    /\ ev.op = "hello" /\ RoleInputColor > 0
    /\ Cardinality(ZeroRecords) = 2

\* ----------------------------------------------- roles after recomputeRole
RecomputeRoleRan == ev.op \in {"maintenance", "hello"}

\* recomputeRole started from a color above 0 and found a Cluster Head record
FoundHead == RecomputeRoleRan /\ RoleInputColor > 0 /\ ZeroRecords # {}

\* some record reports a cluster other than the node's own
ForeignClusterRecords ==
    { k \in DOMAIN StepTable :
        StepTable[k].clusterId >= 0 /\ StepTable[k].clusterId # EvNode.clusterId }

\* some record reports no cluster at all
UnclusteredRecords ==
    { k \in DOMAIN StepTable : StepTable[k].clusterId = NoCluster }

\* C21 as stated: with a Cluster Head found, the role is Gateway exactly when
\* some record reports a clusterId different from the node's own, a record that
\* reports no cluster included.
C21_Original ==
    FoundHead =>
        EvNode.role = IF ForeignClusterRecords # {} \/ UnclusteredRecords # {}
                      THEN GATEWAY ELSE MEMBER

\* C21 amended: with a Cluster Head found, the role is Gateway exactly when some
\* record reports a cluster (clusterId >= 0) different from the node's own; a
\* record that reports no cluster does not make the node a Gateway.
C21_GatewayRule ==
    FoundHead =>
        EvNode.role = IF ForeignClusterRecords # {} THEN GATEWAY ELSE MEMBER

\* a node that hears an unclustered neighbor and no foreign cluster is a Member
C21_Witness ==
    /\ FoundHead
    /\ UnclusteredRecords # {}
    /\ ForeignClusterRecords = {}
    /\ EvNode.role = MEMBER

\* C22: recomputeRole, after a HELLO as well as in the maintenance cycle, on a
\* color above 0 with no color-0 record makes the node Undecided, without
\* cluster and uncolored; in every other case it leaves the color as it was.
C22_UndecidedDemotion ==
    RecomputeRoleRan =>
        IF RoleInputColor > 0 /\ ZeroRecords = {}
        THEN /\ EvNode.role = UNDECIDED
             /\ EvNode.clusterId = NoCluster
             /\ EvNode.currentColor = NoColor
        ELSE EvNode.currentColor = RoleInputColor

\* a HELLO in which the only Cluster Head gives up color 0 demotes the receiver
C22_Witness ==
    /\ ev.op = "hello"
    /\ ev.pre.currentColor > 0
    /\ ev.pre.role \in {MEMBER, GATEWAY}
    /\ EvNode.currentColor = NoColor

\* --------------------------------------------------- forwarding decisions
\* the neighbors recorded with role Gateway
GatewayRecords ==
    { j \in DOMAIN ev.pre.neighborTable : ev.pre.neighborTable[j].role = GATEWAY }

\* all the copies the handler handed on, with where each went at once
OneCopyTo(k) ==
    /\ EvCopies = { HandedOn(k) }
    /\ \A x \in ev.sent : x.dstIp = ev.pre.neighborTable[k].ipAddress
    /\ Cardinality(ev.sent) + Cardinality(ev.sched) = 1

\* C23: a Cluster Head handing a unit on (relaying or originating) sends exactly
\* one copy to the destination when the destination is in its neighbor table,
\* whatever the route cache holds; otherwise exactly one copy to the cached
\* gateway when that gateway is in the table with role Gateway; otherwise one
\* copy to each neighbor recorded as Gateway and none to anyone else.
C23_ChDecisionOrder ==
    ((Relays \/ Originates) /\ AsHead) =>
        IF DestIsNeighbor THEN OneCopyTo(ev.pkt.destNodeId)
        ELSE IF CachedGwValid THEN OneCopyTo(CachedGw)
        ELSE /\ EvCopies = { HandedOn(k) : k \in GatewayRecords }
             /\ Cardinality(ev.sent) + Cardinality(ev.sched) = Cardinality(GatewayRecords)

\* the destination is a neighbor and the cache names a valid gateway for it: the
\* copy goes to the destination
C23_Witness ==
    /\ Relays /\ AsHead /\ DestIsNeighbor /\ CachedGwValid
    /\ CachedGw # ev.pkt.destNodeId
    /\ OneCopyTo(ev.pkt.destNodeId)

\* the neighbor records of another cluster that are part of the backbone
ForeignBackboneRecords ==
    { k \in DOMAIN ev.pre.neighborTable :
        /\ ev.pre.neighborTable[k].clusterId # ev.pre.clusterId
        /\ ev.pre.neighborTable[k].role \in {GATEWAY, CLUSTER_HEAD} }

OwnChKnown == ev.pre.clusterId \in DOMAIN ev.pre.neighborTable

\* C24: a Gateway relaying a unit received from its own Cluster Head schedules
\* one copy for every neighbor record of another cluster with role Gateway or
\* ClusterHead, and none for its own Cluster Head or a same-cluster neighbor;
\* a unit received from anyone else is sent at once, in one copy, to its own
\* Cluster Head, and dropped when that Cluster Head is not in the table.
C24_GatewayBridging ==
    (Relays /\ ev.pre.role = GATEWAY) =>
        IF SenderIsOwnCH
        THEN /\ ev.sent = {}
             /\ ev.sched = { Decremented(ev.pkt, k) : k \in ForeignBackboneRecords }
             /\ \A c \in ev.sched :
                   /\ c.nextHopId # ev.pre.clusterId
                   /\ ev.pre.neighborTable[c.nextHopId].clusterId # ev.pre.clusterId
        ELSE IF OwnChKnown
        THEN /\ ev.sched = {}
             /\ ev.sent = { SendTo(Decremented(ev.pkt, ev.pre.clusterId),
                                   ev.pre.neighborTable[ev.pre.clusterId].ipAddress) }
        ELSE EvSilent

\* a unit from the own Cluster Head is bridged out to a foreign Gateway
C24_Witness ==
    /\ Relays /\ ev.pre.role = GATEWAY /\ SenderIsOwnCH
    /\ \E c \in ev.sched : ev.pre.neighborTable[c.nextHopId].role = GATEWAY

\* ------------------------------------------------ reception: early exits
\* C25: a node that takes in a not-yet-seen unit, past the addressing filter,
\* whose destination is the node itself delivers it and neither transmits nor
\* schedules a copy, whatever its role and whatever the unit's TTL.
C25_DeliveryCheck ==
    (DataArrived /\ PassedAddressing /\ ~SeenBefore /\ ev.pkt.destNodeId = ev.node) =>
        /\ ev.delivered
        /\ ev.sent = {}
        /\ ev.sched = {}

\* an Undecided node is delivered a unit whose hop budget is used up
C25_Witness ==
    /\ DataArrived /\ PassedAddressing /\ ~SeenBefore /\ ev.pkt.destNodeId = ev.node
    /\ ev.pre.role = UNDECIDED /\ ev.pkt.ttl = 0
    /\ ev.delivered

\* C26: a received unit whose explicit next hop is set and is not this node is
\* not delivered, causes no transmission and no scheduled send, and leaves every
\* field of the node as it was except, at a Cluster Head, the route cache.
C26_AddressingFilter ==
    (DataArrived /\ ~PassedAddressing) =>
        /\ EvSilent
        /\ EvNode = [ev.pre EXCEPT !.backboneRoutingTable = EvNode.backboneRoutingTable]
        /\ EvNode.backboneRoutingTable # ev.pre.backboneRoutingTable
              => ev.pre.role = CLUSTER_HEAD

\* an overheard unit teaches a Cluster Head a route
C26_Witness ==
    DataArrived /\ ~PassedAddressing /\ RoutesWritten # {} /\ ~SeenBefore

\* C27: an Undecided node that receives a unit not destined to it transmits
\* nothing and schedules nothing, whatever the TTL; an Undecided node whose data
\* timer fires transmits nothing, records nothing and keeps its sequence counter.
C27_UndecidedSilent ==
    /\ (DataArrived /\ ev.pre.role = UNDECIDED /\ ev.pkt.destNodeId # ev.node) =>
          (ev.sent = {} /\ ev.sched = {})
    /\ (Originates /\ ev.pre.role = UNDECIDED) =>
          (EvSilent /\ EvNode = ev.pre)

\* an Undecided node with a Gateway neighbor takes in a fresh unit with hops
\* left and hands nothing on
C27_Witness ==
    /\ DataArrived /\ PassedAddressing /\ ~SeenBefore
    /\ ev.pre.role = UNDECIDED /\ ev.pkt.destNodeId # ev.node /\ ev.pkt.ttl > 0
    /\ GatewayRecords # {}
    /\ ev.sent = {} /\ ev.sched = {}

\* ------------------------------------------------------- HELLO reception
HelloArrived == ev.op = "hello"

\* the record an advertisement stands for at the moment it is received
AdvertisedRecord ==
    [ neighborId |-> ev.pkt.senderId, ipAddress |-> IpOf(ev.lastHop),
      color |-> ev.pkt.color, role |-> ev.pkt.role,
      clusterId |-> ev.pkt.clusterId, lastHeard |-> now ]

\* C28: an advertisement from a sender other than the node sets the sender's
\* record to exactly the advertised color, role, clusterId and sender address
\* with lastHeard = now and leaves every other record as it was; an
\* advertisement carrying the node's own id changes nothing; no neighbor table
\* ever holds its owner's id.
C28_NeighborUpsert ==
    /\ (HelloArrived /\ ev.pkt.senderId # ev.node) =>
          /\ DOMAIN EvNode.neighborTable
                = DOMAIN ev.pre.neighborTable \cup {ev.pkt.senderId}
          /\ EvNode.neighborTable[ev.pkt.senderId] = AdvertisedRecord
          /\ \A k \in DOMAIN ev.pre.neighborTable \ {ev.pkt.senderId} :
                EvNode.neighborTable[k] = ev.pre.neighborTable[k]
    /\ (HelloArrived /\ ev.pkt.senderId = ev.node) => EvNode = ev.pre
    /\ \A i \in Nodes : i \notin DOMAIN node[i].neighborTable

\* a later advertisement replaces the sender's record next to another record
C28_Witness ==
    /\ HelloArrived /\ ev.pkt.senderId # ev.node
    /\ ev.pkt.senderId \in DOMAIN ev.pre.neighborTable
    /\ ev.pre.neighborTable[ev.pkt.senderId] # AdvertisedRecord
    /\ Cardinality(DOMAIN EvNode.neighborTable) = 2

\* ------------------------------------------------------ sequence counter
HandlerRan == ev.node \in Nodes

\* the originated unit was handed to a send or scheduled
HandedOut == Originates /\ (ev.sent # {} \/ ev.sched # {})

\* the DedupSet keys of units whose source is node i
OwnKeys(s, i) == { k \in s.seenDataPackets : k[1] = i }

\* C29: no handler decreases the sequence counter; the counter grows, by
\* exactly one, exactly when an originated unit was handed to a send or
\* scheduled, and only then is (nodeId, seq) added to the DedupSet; every copy
\* of that unit carries the counter's value from before; a dropped origination
\* leaves counter and DedupSet as they were; the units a node has originated
\* are numbered 0 .. counter - 1, so the next unit's number is a new one.
C29_SequenceCounter ==
    /\ HandlerRan =>
          /\ EvNode.mySeqNum >= ev.pre.mySeqNum
          /\ EvNode.mySeqNum = ev.pre.mySeqNum + (IF HandedOut THEN 1 ELSE 0)
          /\ OwnKeys(EvNode, ev.node) =
                OwnKeys(ev.pre, ev.node)
                  \cup (IF HandedOut THEN {<<ev.node, ev.pre.mySeqNum>>} ELSE {})
    /\ HandedOut =>
          /\ \A c \in EvCopies : c.srcId = ev.node /\ c.seqNum = ev.pre.mySeqNum
          /\ <<ev.node, ev.pre.mySeqNum>> \notin ev.pre.seenDataPackets
    /\ (Originates /\ ~HandedOut) =>
          /\ EvNode.mySeqNum = ev.pre.mySeqNum
          /\ EvNode.seenDataPackets = ev.pre.seenDataPackets
    /\ \A i \in up :
          OwnKeys(node[i], i) = { <<i, q>> : q \in 0..(node[i].mySeqNum - 1) }

\* a Cluster Head floods a unit of its own to a Gateway neighbor and counts it
C29_Witness ==
    /\ HandedOut /\ AsHead /\ ev.sched # {}
    /\ EvNode.mySeqNum = ev.pre.mySeqNum + 1

\* ------------------------------------------------------- periodic timers
\* C30: from the end of start-up until finish(), after every handler each of
\* the three periodic timers of a running node is scheduled exactly once: every
\* timer handler schedules its own timer again on every path, the data
\* handler's early return for too few hosts and every drop path of origination
\* included, and no other handler schedules or cancels one.
C30_PeriodicTimers ==
    \A i \in up : \A k \in TimerNames : node[i].timers[k] = 1

\* the data timer of a single host has fired and is scheduled again
C30_Witness ==
    /\ ev.op = "dataTimer"
    /\ \E i \in up : node[i].numHosts <= 1 /\ node[i].timers["dataTimer"] = 1

\* ------------------------------------------------- role, color and cluster
\* the ids of the records of color 0 in the table of state s
ZeroIds(s) == { k \in DOMAIN s.neighborTable : s.neighborTable[k].color = 0 }

RoleMatchesColor(i, s) ==
    /\ s.role = CLUSTER_HEAD <=> s.currentColor = 0
    /\ s.role = CLUSTER_HEAD => s.clusterId = i
    /\ s.role = UNDECIDED <=> s.currentColor < 0
    /\ s.role = UNDECIDED => s.clusterId = NoCluster
    /\ s.role \in {MEMBER, GATEWAY} =>
          /\ s.currentColor > 0
          /\ s.clusterId \in ZeroIds(s)
          /\ \A k \in ZeroIds(s) : s.clusterId <= k

\* C31: between the handlers of a node, its role is ClusterHead exactly when its
\* color is 0 (clusterId its own id), Undecided exactly when it is uncolored
\* (no clusterId), and Member or Gateway only with a color above 0 and, as
\* clusterId, the smallest id among the color-0 records of its neighbor table,
\* which therefore holds its Cluster Head.
C31_RoleColorConsistency ==
    \A i \in up : RoleMatchesColor(i, node[i])

\* a maintenance cycle evicts a Gateway's Cluster Head and the node joins the
\* Cluster Head that is left
C31_Witness ==
    /\ ev.op = "maintenance"
    /\ ev.pre.role = GATEWAY
    /\ ev.pre.clusterId \in ev.pruned
    /\ EvNode.role = MEMBER
    /\ EvNode.clusterId # ev.pre.clusterId

\* the node's table, pruning done, holds a color-0 record of a smaller id
SmallerHeadRecorded ==
    \E k \in DOMAIN StepTable : StepTable[k].color = 0 /\ k < ev.node

\* C32: a node of color 0 still has color 0 and role ClusterHead after every
\* handler other than a maintenance cycle that finds a color-0 record of a
\* smaller id in its neighbor table; the node of id 0 never loses color 0.
C32_ColorZeroStable ==
    (HandlerRan /\ ev.pre.currentColor = 0) =>
        /\ ~(ev.op = "maintenance" /\ SmallerHeadRecorded) =>
              (EvNode.currentColor = 0 /\ EvNode.role = CLUSTER_HEAD)
        /\ ev.node = 0 => EvNode.currentColor = 0

\* a Cluster Head hears a smaller-id node advertise color 0 and keeps its own
C32_Witness ==
    /\ ev.op = "hello" /\ ev.pre.currentColor = 0
    /\ ev.pkt.color = 0 /\ ev.pkt.senderId < ev.node
    /\ EvNode.currentColor = 0 /\ EvNode.role = CLUSTER_HEAD

\* C33: right after the coloring step the node is colored and no neighbor
\* record of a smaller id holds its color; records of larger ids may.
C33_ColoringPostCondition ==
    (ColoringStepRan /\ ev.stepColor >= 0) =>
        \A k \in DOMAIN StepTable :
            k < ev.node => StepTable[k].color # ev.stepColor

\* the node has a smaller-id neighbor of another color and keeps the color it
\* shares with a larger-id neighbor
C33_Witness ==
    /\ ColoringStepRan /\ ev.stepColor >= 0
    /\ \E k \in DOMAIN StepTable : k < ev.node
    /\ \E k \in DOMAIN StepTable : k > ev.node /\ StepTable[k].color = ev.stepColor

\* --------------------------------------------------- at-most-once delivery
\* C34: with units entering the network only by origination (never addressed
\* to their own source), each (sourceId, sequenceNumber) is delivered to the
\* application at most once at any node, flooding, repeated arrival and the
\* Gateway re-admission included.
C34_AtMostOnceDelivery ==
    \A e \in BagToSet(ev.deliveries) : CopiesIn(e, ev.deliveries) = 1

\* a unit already delivered to this node arrives again and is not delivered
\* again; the copy has made two hops more than three hosts allow without a
\* node taking the unit twice: its source, a Gateway, has taken it back from
\* its Cluster Head and bridged it
C34_Witness ==
    /\ DataArrived /\ PassedAddressing
    /\ ev.pkt.ttl = InitialTtl - 2
    /\ ev.pkt.destNodeId = ev.node
    /\ BagIn(<<ev.node, ev.pkt.srcId, ev.pkt.seqNum>>, ev.deliveries)
    /\ ~ev.delivered

====
